---- MODULE Spec2Model ----
(***************************************************************************)
(* Model of libosmocore's netdev.c (build without libmnl): the pool of     *)
(* refcounted network-namespace contexts, the osmo_netdev handle state     *)
(* machine and the NETDEV_NETNS_ENTER / NETDEV_NETNS_EXIT bracketing.      *)
(* Every public function is one action; the C functions are operators on   *)
(* a "world" record s = [ctx, list, fds, ns, calls] that is threaded       *)
(* through the calls in program order.                                     *)
(***************************************************************************)
EXTENDS Integers, Sequences, FiniteSets, TLC

(* ------------------------------ bounds -------------------------------- *)

\* register() is not offered once the context it would reference holds
\* this many references (failed registers can leak references without end).
MaxRefcount == 3

\* interface indices a caller may configure: 0..MaxIfindex
MaxIfindex == 1

(* ----------------------------- constants ------------------------------ *)

EACCES == 13
EALREADY == 114
EFAULT == 14
ENODEV == 19
ENOTSUP == 95
EPERM == 1
ENOENT == 2

\* the null pointer (struct netdev_netns_ctx *)
NULL == 0

\* netns_fd of a context whose namespace was not opened
NOFD == -1

IFINDEX_UNUSED == 0

\* the null char pointer (a string that is not set)
NullStr == "(null)"

\* the osmo_netdev objects a caller may hold
Handles == {"A", "B"}

\* network namespace names; "" is the default namespace
NetnsNames == {"", "blue"}

\* addresses a struct netdev_netns_ctx can be allocated at
CtxIds == 1..Cardinality(NetnsNames)

\* file descriptors the OS can hand out
Fds == {3, 4}

Min(S) == CHOOSE x \in S : \A y \in S : x <= y

(* ------------------ OS collaborators (not in netdev.c) ----------------- *)

\* the record of one collaborator call made by an operation
Call(s, fn, arg, rc) ==
    [s EXCEPT !.calls = Append(@, [fn |-> fn, arg |-> arg, rc |-> rc])]

\* the interfaces that exist in each namespace
IfIndexToName(ns, ifindex) ==
    CASE ifindex = 1 -> "eth0"
      [] ns = "blue" /\ ifindex = 2 -> "tun0"
      [] OTHER -> NullStr

\* if_indextoname(): resolves in the namespace the process is in
if_indextoname(s, ifindex) ==
    LET nm == IfIndexToName(s.ns, ifindex)
    IN  [s |-> Call(s, "if_indextoname", ifindex, IF nm = NullStr THEN -1 ELSE 0),
         ret |-> nm]

\* osmo_netns_open_fd(): the lowest free descriptor, or -errno
osmo_netns_open_fd(s, name, out) ==
    LET free == {f \in Fds : s.fds[f] = NullStr}
    IN  IF out = "ok" /\ free # {}
        THEN LET f == Min(free)
             IN  [s |-> [Call(s, "open", f, f) EXCEPT !.fds[f] = name], ret |-> f]
        ELSE LET e == IF out = "enoent" THEN -ENOENT ELSE -EPERM
             IN  [s |-> Call(s, "open", NOFD, e), ret |-> e]

\* close()
close(s, fd) ==
    IF fd \in Fds /\ s.fds[fd] # NullStr
    THEN [Call(s, "close", fd, 0) EXCEPT !.fds[fd] = NullStr]
    ELSE Call(s, "close", fd, -1)

\* osmo_netns_switch_enter(): records the namespace the process is in and
\* moves the process into the namespace of nsfd; fails on a bad descriptor
osmo_netns_switch_enter(s, nsfd, ok) ==
    IF ok /\ nsfd \in Fds /\ s.fds[nsfd] # NullStr
    THEN [s |-> [Call(s, "enter", nsfd, 0) EXCEPT !.ns = s.fds[nsfd]],
          rc |-> 0, prev |-> s.ns]
    ELSE [s |-> Call(s, "enter", nsfd, -EPERM), rc |-> -EPERM, prev |-> s.ns]

\* osmo_netns_switch_exit(): moves the process back; on failure it stays
osmo_netns_switch_exit(s, prev, ok) ==
    IF ok
    THEN [s |-> [Call(s, "exit", 0, 0) EXCEPT !.ns = prev], rc |-> 0]
    ELSE [s |-> Call(s, "exit", 0, -EPERM), rc |-> -EPERM]

(* ------------------------ namespace context pool ----------------------- *)

\* the memory of a context that is not allocated
DeadCtx == [live |-> FALSE, refcount |-> 0, netns_name |-> "", netns_fd |-> NOFD]

netdev_netns_ctx_alloc(s, netns_name, ok) ==
    LET free == {c \in CtxIds : ~s.ctx[c].live}
    IN  IF ~ok \/ free = {}
        THEN [s |-> s, ret |-> NULL]
        ELSE LET c == Min(free)
             IN  [s |-> [s EXCEPT !.ctx[c] = [live |-> TRUE, refcount |-> 0,
                                              netns_name |-> netns_name,
                                              netns_fd |-> NOFD],
                                  !.list = Append(@, c)],
                  ret |-> c]

netdev_netns_ctx_free(s, c) ==
    IF c = NULL THEN s
    ELSE LET Other(x) == x # c
             s1 == [s EXCEPT !.list = SelectSeq(@, Other)]
             fd == s.ctx[c].netns_fd
             s2 == IF fd # NOFD THEN close(s1, fd) ELSE s1
         IN  [s2 EXCEPT !.ctx[c] = DeadCtx]

\* netdev_netns_ctx_init() after the validation exit
netdev_netns_ctx_init_exited(x) ==
    [s |-> x.s, rc |-> IF x.rc < 0 THEN x.rc ELSE 0]

\* netdev_netns_ctx_init() after the validation enter
netdev_netns_ctx_init_entered(e, in) ==
    IF e.rc < 0 THEN [s |-> e.s, rc |-> e.rc]
    ELSE netdev_netns_ctx_init_exited(osmo_netns_switch_exit(e.s, e.prev, in.vexit))

\* netdev_netns_ctx_init() after osmo_netns_open_fd() returned o
netdev_netns_ctx_init_opened(c, o, in) ==
    IF o.ret < 0
    THEN [s |-> [o.s EXCEPT !.ctx[c].netns_fd = o.ret], rc |-> o.ret]
    ELSE netdev_netns_ctx_init_entered(
             osmo_netns_switch_enter([o.s EXCEPT !.ctx[c].netns_fd = o.ret],
                                     o.ret, in.venter), in)

netdev_netns_ctx_init(s, c, in) ==
    IF s.ctx[c].netns_name # ""
    THEN netdev_netns_ctx_init_opened(
             c, osmo_netns_open_fd(s, s.ctx[c].netns_name, in.open), in)
    ELSE [s |-> s, rc |-> 0]

\* a lookup that finds nothing
netdev_netns_ctx_find_nothing(s, netns_name) ==
    NULL

netdev_netns_ctx_find_by_netns_name(s, netns_name) ==
    LET hits == {i \in 1..Len(s.list) : s.ctx[s.list[i]].netns_name = netns_name}
    IN  IF hits = {} THEN NULL ELSE s.list[Min(hits)]

\* a netdev_netns_ctx_get() that leaves the context it failed to initialise
netdev_netns_ctx_get_inited_no_free(c, i) ==
    IF i.rc < 0
    THEN [s |-> i.s, ret |-> NULL]
    ELSE [s |-> [i.s EXCEPT !.ctx[c].refcount = @ + 1], ret |-> c]

\* netdev_netns_ctx_get() after netdev_netns_ctx_init() returned i
netdev_netns_ctx_get_inited(c, i) ==
    IF i.rc < 0
    THEN [s |-> netdev_netns_ctx_free(i.s, c), ret |-> NULL]
    ELSE [s |-> [i.s EXCEPT !.ctx[c].refcount = @ + 1], ret |-> c]

\* netdev_netns_ctx_get() after netdev_netns_ctx_alloc() returned a
netdev_netns_ctx_get_allocated(a, in) ==
    IF a.ret = NULL THEN [s |-> a.s, ret |-> NULL]
    ELSE netdev_netns_ctx_get_inited(a.ret, netdev_netns_ctx_init(a.s, a.ret, in))

\* netdev_netns_ctx_get() after the lookup returned found
netdev_netns_ctx_get_found(s, found, netns_name, in) ==
    IF found # NULL
    THEN [s |-> [s EXCEPT !.ctx[found].refcount = @ + 1], ret |-> found]
    ELSE netdev_netns_ctx_get_allocated(
             netdev_netns_ctx_alloc(s, netns_name, in.alloc), in)

netdev_netns_ctx_get(s, netns_name, in) ==
    netdev_netns_ctx_get_found(
        s, netdev_netns_ctx_find_by_netns_name(s, netns_name), netns_name, in)

\* a netdev_netns_ctx_put() that frees the context whatever the count
netdev_netns_ctx_put_always_free(s, c) ==
    netdev_netns_ctx_free([s EXCEPT !.ctx[c].refcount = @ - 1], c)

\* a netdev_netns_ctx_put() that never frees the context
netdev_netns_ctx_put_never_free(s, c) ==
    [s EXCEPT !.ctx[c].refcount = @ - 1]

\* refcount is an unsigned int: a value of -1 here is the bit pattern of
\* UINT_MAX, which is what a decrement of 0 leaves
netdev_netns_ctx_put(s, c) ==
    LET s1 == [s EXCEPT !.ctx[c].refcount = @ - 1]
    IN  IF s1.ctx[c].refcount = 0 THEN netdev_netns_ctx_free(s1, c) ELSE s1

(* ------------------------- namespace switch guard ---------------------- *)

\* returned: the macro made the enclosing function return rc
NETDEV_NETNS_ENTER_switched(e) ==
    [s |-> e.s, returned |-> e.rc < 0, rc |-> -EACCES, prev |-> e.prev]

NETDEV_NETNS_ENTER(s, nd, ok) ==
    IF nd.netns_name # NullStr
    THEN NETDEV_NETNS_ENTER_switched(
             osmo_netns_switch_enter(s, s.ctx[nd.netns_ctx].netns_fd, ok))
    ELSE [s |-> s, returned |-> FALSE, rc |-> 0, prev |-> s.ns]

NETDEV_NETNS_EXIT_switched(x) ==
    [s |-> x.s, returned |-> x.rc < 0, rc |-> x.rc]

NETDEV_NETNS_EXIT(s, nd, prev, ok) ==
    IF nd.netns_name # NullStr
    THEN NETDEV_NETNS_EXIT_switched(osmo_netns_switch_exit(s, prev, ok))
    ELSE [s |-> s, returned |-> FALSE, rc |-> 0]

(* ------------------------------ state ---------------------------------- *)

VARIABLES
    netdev,                   \* the fields of each struct osmo_netdev
    g_netdev_list,            \* the members of the list of allocated osmo_netdev (never walked)
    ctx,                      \* the memory of each struct netdev_netns_ctx
    g_netdev_netns_ctx_list,  \* the list of contexts in the pool
    open_fds,                 \* descriptor -> namespace it is open on
    cur_ns,                   \* the namespace the process is in
    last,                     \* the call that just returned: op, handle, result, collaborator calls
    at_register,              \* ifindex and netns_name each handle had when its register() succeeded
    thread,                   \* where the thread working on each handle is inside register()/unregister()
    overlapped                \* a thread has taken a step while another was inside an operation

vars == <<netdev, g_netdev_list, ctx, g_netdev_netns_ctx_list, open_fds, cur_ns,
          last, at_register, thread, overlapped>>

\* the world the C functions act on, before the call
World ==
    [ctx |-> ctx, list |-> g_netdev_netns_ctx_list, fds |-> open_fds,
     ns |-> cur_ns, calls |-> <<>>]

\* the world after the call becomes the state
Commit(s) ==
    /\ ctx' = s.ctx
    /\ g_netdev_netns_ctx_list' = s.list
    /\ open_fds' = s.fds
    /\ cur_ns' = s.ns

\* memory that holds no osmo_netdev; also what talloc_zero() hands out
ZeroNetdev ==
    [alloc |-> FALSE, netns_ctx |-> NULL, ifindex |-> IFINDEX_UNUSED,
     dev_name |-> NullStr, netns_name |-> NullStr, priv_data |-> NULL,
     registered |-> FALSE, if_up |-> FALSE, if_up_known |-> FALSE,
     if_mtu |-> 0, if_mtu_known |-> FALSE,
     ifupdown_ind_cb |-> NULL, dev_name_chg_cb |-> NULL, mtu_chg_cb |-> NULL]

NoCfg == [ifindex |-> IFINDEX_UNUSED, netns_name |-> NullStr]

\* What the collaborators answer during one call: allocation, namespace
\* open, the validation enter/exit of netdev_netns_ctx_init and the enter/exit
\* of the NETDEV_NETNS macros. No collaborator is asked again after a failure
\* made the call return, so the answers after the first failure are fixed.
AllOk ==
    [alloc |-> TRUE, open |-> "ok", venter |-> TRUE, vexit |-> TRUE,
     enter |-> TRUE, exit |-> TRUE]

Inputs ==
    {AllOk,
     [AllOk EXCEPT !.alloc = FALSE],
     [AllOk EXCEPT !.open = "eperm"],
     [AllOk EXCEPT !.open = "enoent"],
     [AllOk EXCEPT !.venter = FALSE],
     [AllOk EXCEPT !.vexit = FALSE],
     [AllOk EXCEPT !.enter = FALSE],
     [AllOk EXCEPT !.exit = FALSE]}

\* the answers an interface operation can ask for: enter and exit only
SwitchInputs ==
    {AllOk, [AllOk EXCEPT !.enter = FALSE], [AllOk EXCEPT !.exit = FALSE]}

(* --------------------------- osmo_netdev API --------------------------- *)

osmo_netdev_alloc(nd, ok) ==
    IF ok THEN [ZeroNetdev EXCEPT !.alloc = TRUE] ELSE nd

osmo_netdev_is_registered(nd) == nd.registered

\* an unregister() that keeps the reference
osmo_netdev_unregister_no_put(s, nd) ==
    IF ~nd.registered
    THEN [nd |-> nd, s |-> s, rc |-> -EALREADY]
    ELSE [nd |-> [nd EXCEPT !.if_up_known = FALSE, !.if_mtu_known = FALSE,
                            !.registered = FALSE],
          s |-> s,
          rc |-> 0]

\* an unregister() that trusts the context pointer instead of the flag
osmo_netdev_unregister_by_ctx(s, nd) ==
    IF nd.netns_ctx = NULL
    THEN [nd |-> nd, s |-> s, rc |-> -EALREADY]
    ELSE [nd |-> [nd EXCEPT !.if_up_known = FALSE, !.if_mtu_known = FALSE,
                            !.registered = FALSE],
          s |-> netdev_netns_ctx_put(s, nd.netns_ctx),
          rc |-> 0]

osmo_netdev_unregister(s, nd) ==
    IF ~nd.registered
    THEN [nd |-> nd, s |-> s, rc |-> -EALREADY]
    ELSE [nd |-> [nd EXCEPT !.if_up_known = FALSE, !.if_mtu_known = FALSE,
                            !.registered = FALSE],
          s |-> netdev_netns_ctx_put(s, nd.netns_ctx),
          rc |-> 0]

\* a free() that reclaims the handle without unregistering it
osmo_netdev_free_no_unregister(s, nd) ==
    [nd |-> ZeroNetdev, s |-> s, rc |-> 0]

\* the object is gone afterwards: its memory is ZeroNetdev
osmo_netdev_free(s, nd) ==
    IF osmo_netdev_is_registered(nd)
    THEN [nd |-> ZeroNetdev, s |-> osmo_netdev_unregister(s, nd).s, rc |-> 0]
    ELSE [nd |-> ZeroNetdev, s |-> s, rc |-> 0]

\* the success path after NETDEV_NETNS_EXIT
osmo_netdev_register_exited(nd, x) ==
    IF x.returned
    THEN [nd |-> nd, s |-> x.s, rc |-> x.rc]
    ELSE [nd |-> [nd EXCEPT !.registered = TRUE], s |-> x.s, rc |-> 0]

\* an err_put_exit that keeps the reference
osmo_netdev_register_err_exit_no_put(nd, x) ==
    IF x.returned
    THEN [nd |-> nd, s |-> x.s, rc |-> x.rc]
    ELSE [nd |-> nd, s |-> x.s, rc |-> -ENODEV]

\* err_put_exit: after NETDEV_NETNS_EXIT, with rc = -ENODEV
osmo_netdev_register_err_put_exit(nd, x) ==
    IF x.returned
    THEN [nd |-> nd, s |-> x.s, rc |-> x.rc]
    ELSE [nd |-> nd, s |-> netdev_netns_ctx_put(x.s, nd.netns_ctx), rc |-> -ENODEV]

\* a register() that leaves the failure path without NETDEV_NETNS_EXIT
osmo_netdev_register_resolved_no_exit(nd, prev, r, in) ==
    IF r.ret = NullStr
    THEN [nd |-> nd, s |-> netdev_netns_ctx_put(r.s, nd.netns_ctx), rc |-> -ENODEV]
    ELSE osmo_netdev_register_exited(
             [nd EXCEPT !.dev_name = r.ret],
             NETDEV_NETNS_EXIT(r.s, nd, prev, in.exit))

\* a register() that stores what if_indextoname() returned before testing it
osmo_netdev_register_resolved_store_first(nd, prev, r, in) ==
    IF r.ret = NullStr
    THEN osmo_netdev_register_err_put_exit(
             [nd EXCEPT !.dev_name = r.ret],
             NETDEV_NETNS_EXIT(r.s, nd, prev, in.exit))
    ELSE osmo_netdev_register_exited(
             [nd EXCEPT !.dev_name = r.ret],
             NETDEV_NETNS_EXIT(r.s, nd, prev, in.exit))

\* after if_indextoname() returned r
osmo_netdev_register_resolved(nd, prev, r, in) ==
    IF r.ret = NullStr
    THEN osmo_netdev_register_err_put_exit(
             nd, NETDEV_NETNS_EXIT(r.s, nd, prev, in.exit))
    ELSE osmo_netdev_register_exited(
             [nd EXCEPT !.dev_name = r.ret],
             NETDEV_NETNS_EXIT(r.s, nd, prev, in.exit))

\* after NETDEV_NETNS_ENTER
osmo_netdev_register_entered(nd, e, in) ==
    IF e.returned
    THEN [nd |-> nd, s |-> e.s, rc |-> e.rc]
    ELSE osmo_netdev_register_resolved(nd, e.prev, if_indextoname(e.s, nd.ifindex), in)

\* after netdev->netns_ctx = netdev_netns_ctx_get(...), which returned g
osmo_netdev_register_got(nd, g, in) ==
    IF g.ret = NULL
    THEN [nd |-> [nd EXCEPT !.netns_ctx = g.ret], s |-> g.s, rc |-> -EFAULT]
    ELSE osmo_netdev_register_entered(
             [nd EXCEPT !.netns_ctx = g.ret],
             NETDEV_NETNS_ENTER(g.s, [nd EXCEPT !.netns_ctx = g.ret], in.enter), in)

\* a register() without the test of the registered flag
osmo_netdev_register_unchecked(s, nd, in) ==
    osmo_netdev_register_got(
        nd,
        netdev_netns_ctx_get(
            s, IF nd.netns_name # NullStr THEN nd.netns_name ELSE "", in),
        in)

osmo_netdev_register(s, nd, in) ==
    IF nd.registered
    THEN [nd |-> nd, s |-> s, rc |-> -EALREADY]
    ELSE osmo_netdev_register_got(
             nd,
             netdev_netns_ctx_get(
                 s, IF nd.netns_name # NullStr THEN nd.netns_name ELSE "", in),
             in)

osmo_netdev_set_priv_data(nd, priv_data) ==
    [nd EXCEPT !.priv_data = priv_data]

\* a set_ifindex() without the test of the registered flag
osmo_netdev_set_ifindex_unchecked(nd, ifindex) ==
    [nd |-> [nd EXCEPT !.ifindex = ifindex], rc |-> 0]

osmo_netdev_set_ifupdown_ind_cb(nd, ifupdown_ind_cb) ==
    [nd |-> [nd EXCEPT !.ifupdown_ind_cb = ifupdown_ind_cb], rc |-> 0]

\* a set_dev_name_chg_cb() that stores into the field of the up/down callback
osmo_netdev_set_dev_name_chg_cb_wrong_field(nd, dev_name_chg_cb) ==
    [nd |-> [nd EXCEPT !.ifupdown_ind_cb = dev_name_chg_cb], rc |-> 0]

osmo_netdev_set_dev_name_chg_cb(nd, dev_name_chg_cb) ==
    [nd |-> [nd EXCEPT !.dev_name_chg_cb = dev_name_chg_cb], rc |-> 0]

osmo_netdev_set_mtu_chg_cb(nd, mtu_chg_cb) ==
    [nd |-> [nd EXCEPT !.mtu_chg_cb = mtu_chg_cb], rc |-> 0]

osmo_netdev_set_ifindex(nd, ifindex) ==
    IF nd.registered
    THEN [nd |-> nd, rc |-> -EALREADY]
    ELSE [nd |-> [nd EXCEPT !.ifindex = ifindex], rc |-> 0]

\* osmo_talloc_replace_string() stores a copy of the string, NULL for NULL
osmo_netdev_set_netns_name(nd, netns_name) ==
    IF nd.registered
    THEN [nd |-> nd, rc |-> -EALREADY]
    ELSE [nd |-> [nd EXCEPT !.netns_name = netns_name], rc |-> 0]

\* osmo_netdev_ifupdown() after NETDEV_NETNS_EXIT, with rc set by the stub
osmo_netdev_ifupdown_exited(rc, x) ==
    IF x.returned THEN [s |-> x.s, rc |-> x.rc] ELSE [s |-> x.s, rc |-> rc]

\* an ifupdown() that goes on after a failed NETDEV_NETNS_ENTER
osmo_netdev_ifupdown_entered_anyway(nd, e, in) ==
    osmo_netdev_ifupdown_exited(-ENOTSUP, NETDEV_NETNS_EXIT(e.s, nd, e.prev, in.exit))

\* osmo_netdev_ifupdown() after NETDEV_NETNS_ENTER: no backend, rc = -ENOTSUP
osmo_netdev_ifupdown_entered(nd, e, in) ==
    IF e.returned THEN [s |-> e.s, rc |-> e.rc]
    ELSE osmo_netdev_ifupdown_exited(-ENOTSUP, NETDEV_NETNS_EXIT(e.s, nd, e.prev, in.exit))

osmo_netdev_ifupdown(s, nd, ifupdown, in) ==
    IF ~nd.registered
    THEN [s |-> s, rc |-> -ENODEV]
    ELSE osmo_netdev_ifupdown_entered(nd, NETDEV_NETNS_ENTER(s, nd, in.enter), in)

\* osmo_netdev_add_addr() after NETDEV_NETNS_EXIT, with rc set by the stub
osmo_netdev_add_addr_exited(rc, x) ==
    IF x.returned THEN [s |-> x.s, rc |-> x.rc] ELSE [s |-> x.s, rc |-> rc]

\* osmo_netdev_add_addr() after NETDEV_NETNS_ENTER: no backend, rc = -ENOTSUP
osmo_netdev_add_addr_entered(nd, e, in) ==
    IF e.returned THEN [s |-> e.s, rc |-> e.rc]
    ELSE osmo_netdev_add_addr_exited(-ENOTSUP, NETDEV_NETNS_EXIT(e.s, nd, e.prev, in.exit))

\* an add_addr() without the test of the registered flag
osmo_netdev_add_addr_unchecked(s, nd, in) ==
    osmo_netdev_add_addr_entered(nd, NETDEV_NETNS_ENTER(s, nd, in.enter), in)

osmo_netdev_add_addr(s, nd, in) ==
    IF ~nd.registered
    THEN [s |-> s, rc |-> -ENODEV]
    ELSE osmo_netdev_add_addr_entered(nd, NETDEV_NETNS_ENTER(s, nd, in.enter), in)

\* an add_route() that returns the stub's rc whatever the exit did
osmo_netdev_add_route_exited_rc(rc, x) ==
    [s |-> x.s, rc |-> rc]

\* osmo_netdev_add_route() after NETDEV_NETNS_EXIT, with rc set by the stub
osmo_netdev_add_route_exited(rc, x) ==
    IF x.returned THEN [s |-> x.s, rc |-> x.rc] ELSE [s |-> x.s, rc |-> rc]

\* osmo_netdev_add_route() after NETDEV_NETNS_ENTER: no backend, rc = -ENOTSUP
osmo_netdev_add_route_entered(nd, e, in) ==
    IF e.returned THEN [s |-> e.s, rc |-> e.rc]
    ELSE osmo_netdev_add_route_exited(-ENOTSUP, NETDEV_NETNS_EXIT(e.s, nd, e.prev, in.exit))

osmo_netdev_add_route(s, nd, in) ==
    IF ~nd.registered
    THEN [s |-> s, rc |-> -ENODEV]
    ELSE osmo_netdev_add_route_entered(nd, NETDEV_NETNS_ENTER(s, nd, in.enter), in)

(* ---------- change notification (backend contract, not in netdev.c) ---- *)

\* the functions a caller registers, one per kind of event
UserCallbacks == [ifupdown |-> 1, dev_name |-> 2, mtu |-> 3]

\* the values the backend reports
DevNames == {"eth0", "eth1"}
Mtus == {1280, 1500}

\* the invocation of callback cb, if one is set
Invoke(cb) ==
    IF cb # NULL THEN <<[fn |-> "callback", arg |-> cb, rc |-> 0]>> ELSE <<>>

\* up/down transition: the cache and its known flag, then the callback
ifupdown_event(nd, if_up) ==
    [nd |-> [nd EXCEPT !.if_up = if_up, !.if_up_known = TRUE],
     calls |-> Invoke(nd.ifupdown_ind_cb)]

\* interface rename: the cached name, then the callback
dev_name_event(nd, dev_name) ==
    [nd |-> [nd EXCEPT !.dev_name = dev_name],
     calls |-> Invoke(nd.dev_name_chg_cb)]

\* MTU change: the cache and its known flag, then the callback
mtu_event(nd, if_mtu) ==
    [nd |-> [nd EXCEPT !.if_mtu = if_mtu, !.if_mtu_known = TRUE],
     calls |-> Invoke(nd.mtu_chg_cb)]

(* ------------------------------ actions -------------------------------- *)

\* no call has returned a result the caller has yet to take
NoCall == [op |-> "none", h |-> NullStr, rc |-> 0, calls |-> <<>>]

\* a thread that is in no operation
Idle == [pc |-> "idle", c |-> NULL, tmp |-> 0, after |-> "none"]

Init ==
    /\ netdev = [h \in Handles |-> ZeroNetdev]
    /\ g_netdev_list = {}
    /\ ctx = [c \in CtxIds |-> DeadCtx]
    /\ g_netdev_netns_ctx_list = <<>>
    /\ open_fds = [f \in Fds |-> NullStr]
    /\ cur_ns = ""
    /\ last = NoCall
    /\ at_register = [h \in Handles |-> NoCfg]
    /\ thread = [h \in Handles |-> Idle]
    /\ overlapped = FALSE

\* a public function is called when the caller has taken the previous result
Done(op, h, rc, calls) ==
    /\ last = NoCall
    /\ last' = [op |-> op, h |-> h, rc |-> rc, calls |-> calls]
    /\ UNCHANGED <<thread, overlapped>>

\* the caller takes the result of the call that returned
Return ==
    /\ last # NoCall
    /\ last' = NoCall
    /\ UNCHANGED <<netdev, g_netdev_list, ctx, g_netdev_netns_ctx_list, open_fds,
                   cur_ns, at_register, thread, overlapped>>

Alloc(h) ==
    /\ ~netdev[h].alloc
    /\ \E ok \in BOOLEAN :
        /\ netdev' = [netdev EXCEPT ![h] = osmo_netdev_alloc(@, ok)]
        /\ g_netdev_list' = IF ok THEN g_netdev_list \cup {h} ELSE g_netdev_list
        /\ Done("alloc", h, IF ok THEN 0 ELSE -1, <<>>)
    /\ UNCHANGED <<ctx, g_netdev_netns_ctx_list, open_fds, cur_ns, at_register>>

\* the call returned r = [nd, s, rc]: the handle and the world take its effects
Returned(op, h, r) ==
    /\ netdev' = [netdev EXCEPT ![h] = r.nd]
    /\ Commit(r.s)
    /\ Done(op, h, r.rc, r.s.calls)
    /\ at_register' =
         IF op = "register" /\ r.rc = 0
         THEN [at_register EXCEPT ![h] = [ifindex |-> r.nd.ifindex,
                                          netns_name |-> r.nd.netns_name]]
         ELSE IF op = "free" \/ (op = "unregister" /\ r.rc = 0)
              THEN [at_register EXCEPT ![h] = NoCfg]
              ELSE at_register

\* the call returned r = [s, rc] and left the handle alone
ReturnedOp(op, h, r) ==
    /\ Commit(r.s)
    /\ Done(op, h, r.rc, r.s.calls)
    /\ UNCHANGED <<netdev, g_netdev_list, at_register>>

\* the setter returned r = [nd, rc]
ReturnedSet(op, h, r) ==
    /\ netdev' = [netdev EXCEPT ![h] = r.nd]
    /\ Done(op, h, r.rc, <<>>)
    /\ UNCHANGED <<g_netdev_list, ctx, g_netdev_netns_ctx_list, open_fds, cur_ns,
                   at_register>>

Free(h) ==
    /\ netdev[h].alloc
    /\ Returned("free", h, osmo_netdev_free(World, netdev[h]))
    /\ g_netdev_list' = g_netdev_list \ {h}

\* the context register() would reference has room for one more reference
RefcountBelowBound(h) ==
    LET nm == IF netdev[h].netns_name # NullStr THEN netdev[h].netns_name ELSE ""
        c == netdev_netns_ctx_find_by_netns_name(World, nm)
    IN  IF c = NULL THEN TRUE ELSE ctx[c].refcount < MaxRefcount

Register(h) ==
    /\ netdev[h].alloc
    /\ RefcountBelowBound(h)
    /\ \E in \in Inputs :
        Returned("register", h, osmo_netdev_register(World, netdev[h], in))
    /\ UNCHANGED g_netdev_list

Unregister(h) ==
    /\ netdev[h].alloc
    /\ Returned("unregister", h, osmo_netdev_unregister(World, netdev[h]))
    /\ UNCHANGED g_netdev_list

SetIfindex(h) ==
    /\ netdev[h].alloc
    /\ \E ifindex \in 0..MaxIfindex :
        ReturnedSet("set_ifindex", h, osmo_netdev_set_ifindex(netdev[h], ifindex))

\* the caller names a namespace, or none (NULL)
SetNetnsName(h) ==
    /\ netdev[h].alloc
    /\ \E netns_name \in (NetnsNames \ {""}) \cup {NullStr} :
        ReturnedSet("set_netns_name", h,
                    osmo_netdev_set_netns_name(netdev[h], netns_name))

\* the caller passes the empty string as the namespace name
SetEmptyNetnsName(h) ==
    /\ netdev[h].alloc
    /\ ReturnedSet("set_netns_name", h, osmo_netdev_set_netns_name(netdev[h], ""))

IfUpDown(h) ==
    /\ netdev[h].alloc
    /\ \E in \in SwitchInputs, ifupdown \in BOOLEAN :
        ReturnedOp("ifupdown", h, osmo_netdev_ifupdown(World, netdev[h], ifupdown, in))

AddAddr(h) ==
    /\ netdev[h].alloc
    /\ \E in \in SwitchInputs :
        ReturnedOp("add_addr", h, osmo_netdev_add_addr(World, netdev[h], in))

AddRoute(h) ==
    /\ netdev[h].alloc
    /\ \E in \in SwitchInputs :
        ReturnedOp("add_route", h, osmo_netdev_add_route(World, netdev[h], in))

SetIfupdownIndCb(h) ==
    /\ netdev[h].alloc
    /\ \E cb \in {NULL, UserCallbacks.ifupdown} :
        ReturnedSet("set_ifupdown_ind_cb", h,
                    osmo_netdev_set_ifupdown_ind_cb(netdev[h], cb))

SetDevNameChgCb(h) ==
    /\ netdev[h].alloc
    /\ \E cb \in {NULL, UserCallbacks.dev_name} :
        ReturnedSet("set_dev_name_chg_cb", h,
                    osmo_netdev_set_dev_name_chg_cb(netdev[h], cb))

SetMtuChgCb(h) ==
    /\ netdev[h].alloc
    /\ \E cb \in {NULL, UserCallbacks.mtu} :
        ReturnedSet("set_mtu_chg_cb", h, osmo_netdev_set_mtu_chg_cb(netdev[h], cb))

\* the handle took the event: r = [nd, calls]
Delivered(op, h, r) ==
    /\ netdev' = [netdev EXCEPT ![h] = r.nd]
    /\ Done(op, h, 0, r.calls)
    /\ UNCHANGED <<g_netdev_list, ctx, g_netdev_netns_ctx_list, open_fds, cur_ns,
                   at_register>>

\* the backend delivers events for the interface of a Registered handle
IfUpDownEvent(h) ==
    /\ netdev[h].registered
    /\ \E if_up \in BOOLEAN :
        Delivered("ifupdown_event", h, ifupdown_event(netdev[h], if_up))

DevNameEvent(h) ==
    /\ netdev[h].registered
    /\ \E dev_name \in DevNames :
        Delivered("dev_name_event", h, dev_name_event(netdev[h], dev_name))

MtuEvent(h) ==
    /\ netdev[h].registered
    /\ \E if_mtu \in Mtus :
        Delivered("mtu_event", h, mtu_event(netdev[h], if_mtu))

\* the calls a caller can make on handle h, with a namespace name or none
Ops(h) ==
    \/ Alloc(h)
    \/ Free(h)
    \/ Register(h)
    \/ Unregister(h)
    \/ SetIfindex(h)
    \/ SetNetnsName(h)
    \/ IfUpDown(h)
    \/ AddAddr(h)
    \/ AddRoute(h)

\* two handles, each in the default namespace or in a named one
Next ==
    \/ Return
    \/ \E h \in Handles : Ops(h)

Spec == Init /\ [][Next]_vars

\* one handle whose namespace name may also be the empty string
NextEmptyName ==
    \/ Return
    \/ Ops("A")
    \/ SetEmptyNetnsName("A")

SpecEmptyName == Init /\ [][NextEmptyName]_vars

\* one handle in the default namespace, its callbacks and the events of its
\* interface
NextEvents ==
    \/ Return
    \/ Alloc("A")
    \/ Free("A")
    \/ Register("A")
    \/ Unregister("A")
    \/ SetIfindex("A")
    \/ SetIfupdownIndCb("A")
    \/ SetDevNameChgCb("A")
    \/ SetMtuChgCb("A")
    \/ IfUpDownEvent("A")
    \/ DevNameEvent("A")
    \/ MtuEvent("A")

SpecEvents == Init /\ [][NextEvents]_vars

(* ----------------------- vocabulary of the claims ----------------------- *)

\* the pool: the contexts, their list and the namespace descriptors
Pool == <<ctx, g_netdev_netns_ctx_list, open_fds>>

\* the namespace name register() acquires a context for
NameOf(h) == IF netdev[h].netns_name # NullStr THEN netdev[h].netns_name ELSE ""

\* the handle's fields a caller can read back
Fields(nd) ==
    [ifindex |-> nd.ifindex, dev_name |-> nd.dev_name, netns_name |-> nd.netns_name,
     priv_data |-> nd.priv_data, registered |-> nd.registered, if_up |-> nd.if_up,
     if_up_known |-> nd.if_up_known, if_mtu |-> nd.if_mtu,
     if_mtu_known |-> nd.if_mtu_known]

\* this step is the call op on handle h (last' describes the call)
IsCall(op, h) == last = NoCall /\ last'.op = op /\ last'.h = h

\* the call that just returned made a collaborator call named fn
Called(l, fn) == \E i \in 1..Len(l.calls) : l.calls[i].fn = fn

\* the call that just returned had a collaborator call named fn fail
CallFailed(l, fn) == \E i \in 1..Len(l.calls) : l.calls[i].fn = fn /\ l.calls[i].rc < 0

\* the namespace if_indextoname() would run in for handle h
ResolveNs(h) == IF netdev[h].netns_name = NullStr THEN cur_ns ELSE netdev[h].netns_name

Unresolvable(h) == IfIndexToName(ResolveNs(h), netdev[h].ifindex) = NullStr

\* the context in the pool for a name, or NULL
CtxOfName(name) == netdev_netns_ctx_find_by_netns_name(World, name)

(* -------------------------------- C1 ----------------------------------- *)

\* C1: register() is all-or-nothing. Whenever register() fails after
\* netdev_netns_ctx_get() succeeded (it returns neither 0, -EALREADY nor
\* -EFAULT), the reference it took is released (the pool is as before the
\* call), the handle is Unregistered and none of its fields has changed.
C1_RegisterAllOrNothing ==
    [][\A h \in Handles :
         (IsCall("register", h) /\ last'.rc \notin {0, -EALREADY, -EFAULT})
         => /\ Pool' = Pool
            /\ ~netdev'[h].registered
            /\ Fields(netdev'[h]) = Fields(netdev[h])]_vars

(* -------------------------------- C2 ----------------------------------- *)

BothRegistered(a, b) ==
    /\ a # b
    /\ netdev[a].registered /\ netdev[b].registered
    /\ NameOf(a) = NameOf(b)

\* C2: two handles registered with the same namespace name reference one
\* context whose refcount is 2; when either unregisters the refcount is 1 and
\* the context stays in the pool with its descriptor open; when the other
\* unregisters too the context leaves the pool and its descriptor is closed.
C2_SharedContextCounts ==
    [][\A a, b \in Handles :
         /\ BothRegistered(a, b)
            => /\ netdev[a].netns_ctx = netdev[b].netns_ctx
               /\ ctx[netdev[a].netns_ctx].refcount = 2
         /\ (BothRegistered(a, b) /\ IsCall("unregister", a))
            => /\ CtxOfName(NameOf(b))' = netdev[b].netns_ctx
               /\ ctx'[netdev[b].netns_ctx].refcount = 1
               /\ ctx'[netdev[b].netns_ctx].netns_fd = ctx[netdev[b].netns_ctx].netns_fd
               /\ open_fds' = open_fds
         /\ (a # b /\ netdev[a].registered /\ ~BothRegistered(a, b)
               /\ IsCall("unregister", a))
            => /\ CtxOfName(NameOf(a))' = NULL
               /\ \A f \in Fds : open_fds'[f] # NameOf(a)]_vars

(* -------------------------------- C3 ----------------------------------- *)

\* the statement of C3 as claimed, read with every collaborator but the
\* resolution succeeding: register() of an Unregistered handle whose ifindex
\* cannot be resolved returns -ENODEV and leaves the handle Unregistered with
\* dev_name absent
C3_Original ==
    [][\A h \in Handles :
         (IsCall("register", h) /\ ~netdev[h].registered /\ Unresolvable(h)
            /\ Called(last', "if_indextoname") /\ ~CallFailed(last', "exit"))
         => /\ last'.rc = -ENODEV
            /\ ~netdev'[h].registered
            /\ netdev'[h].dev_name = NullStr]_vars

\* C3 (amended): register() of an Unregistered handle whose ifindex cannot be
\* resolved never succeeds and leaves the handle Unregistered with dev_name
\* as it was before the call (absent only if no earlier register() resolved a
\* name: unregister() keeps the name). It returns -ENODEV exactly when the
\* resolution is reached and NETDEV_NETNS_EXIT does not fail; otherwise
\* -EFAULT (no context), -EACCES (enter failed) or the error of the exit.
C3_UnresolvableRegisterFails ==
    [][\A h \in Handles :
         (IsCall("register", h) /\ ~netdev[h].registered /\ Unresolvable(h))
         => /\ last'.rc \in {-ENODEV, -EFAULT, -EACCES, -EPERM}
            /\ (last'.rc = -ENODEV) <=>
                   (Called(last', "if_indextoname") /\ ~CallFailed(last', "exit"))
            /\ (last'.rc = -EFAULT) <=> (netdev'[h].netns_ctx = NULL)
            /\ (last'.rc = -EACCES) <=>
                   (~Called(last', "if_indextoname")
                      /\ netdev'[h].netns_ctx # NULL)
            /\ ~netdev'[h].registered
            /\ netdev'[h].dev_name = netdev[h].dev_name]_vars

\* a handle that was registered before fails to register with -ENODEV and
\* still holds the name resolved by the earlier registration
C3_Witness ==
    /\ last.op = "register" /\ last.rc = -ENODEV
    /\ ~netdev[last.h].registered
    /\ netdev[last.h].dev_name # NullStr

(* -------------------------------- C4 ----------------------------------- *)

\* C4: a register() that returns -ENODEV leaves the pool exactly as it was:
\* the same contexts at the same refcounts in the same order, and the same
\* descriptors open.
C4_NotFoundLeavesPool ==
    [][\A h \in Handles :
         (IsCall("register", h) /\ last'.rc = -ENODEV) => Pool' = Pool]_vars

\* register() returned -ENODEV on a handle in namespace "blue" while the other
\* handle is Registered in "blue"
C4_Witness ==
    /\ last.op = "register" /\ last.rc = -ENODEV
    /\ netdev[last.h].netns_name = "blue"
    /\ \E o \in Handles \ {last.h} :
         netdev[o].registered /\ netdev[o].netns_name = "blue"

(* -------------------------------- C5 ----------------------------------- *)

\* C5: register() on a Registered handle returns -EALREADY, changes no field
\* of any handle, leaves the pool alone and calls no collaborator.
C5_RegisterTwice ==
    [][\A h \in Handles :
         (IsCall("register", h) /\ netdev[h].registered)
         => /\ last'.rc = -EALREADY
            /\ netdev' = netdev
            /\ Pool' = Pool
            /\ cur_ns' = cur_ns
            /\ last'.calls = <<>>]_vars

\* register() returned -EALREADY on a handle registered in a named namespace
C5_Witness ==
    /\ last.op = "register" /\ last.rc = -EALREADY
    /\ netdev[last.h].registered
    /\ netdev[last.h].netns_name = "blue"

(* -------------------------------- C6 ----------------------------------- *)

\* C6: set_ifindex and set_netns_name on a Registered handle return -EALREADY
\* and change nothing, and a Registered handle's ifindex and netns_name are
\* the ones it had when its register() succeeded.
C6_ConfigFrozenWhileRegistered ==
    [][/\ \A h \in Handles :
            ((IsCall("set_ifindex", h) \/ IsCall("set_netns_name", h))
               /\ netdev[h].registered)
            => /\ last'.rc = -EALREADY
               /\ netdev' = netdev
               /\ Pool' = Pool
       /\ \A h \in Handles :
            netdev'[h].registered
            => at_register'[h] = [ifindex |-> netdev'[h].ifindex,
                                  netns_name |-> netdev'[h].netns_name]]_vars

\* set_ifindex was refused on a Registered handle
C6_Witness ==
    /\ last.op = "set_ifindex" /\ last.rc = -EALREADY
    /\ netdev[last.h].registered

(* -------------------------------- C7 ----------------------------------- *)

\* C7: unregister() on an Unregistered handle returns -EALREADY and changes
\* neither the pool (no refcount, no context, no descriptor) nor any handle.
C7_UnregisterTwice ==
    [][\A h \in Handles :
         (IsCall("unregister", h) /\ ~netdev[h].registered)
         => /\ last'.rc = -EALREADY
            /\ Pool' = Pool
            /\ netdev' = netdev]_vars

\* unregister() was refused on a handle whose netns_ctx still points at a
\* context that is in the pool
C7_Witness ==
    /\ last.op = "unregister" /\ last.rc = -EALREADY
    /\ netdev[last.h].netns_ctx # NULL
    /\ ctx[netdev[last.h].netns_ctx].live

(* -------------------------------- C8 ----------------------------------- *)

\* the pool after one reference of context c is released
Released(c) ==
    IF ctx[c].refcount = 1
    THEN /\ ctx' = [ctx EXCEPT ![c] = DeadCtx]
         /\ \A i \in 1..Len(g_netdev_netns_ctx_list') :
              g_netdev_netns_ctx_list'[i] # c
         /\ Len(g_netdev_netns_ctx_list') = Len(g_netdev_netns_ctx_list) - 1
         /\ \A f \in Fds :
              open_fds'[f] = IF f = ctx[c].netns_fd THEN NullStr ELSE open_fds[f]
    ELSE /\ ctx' = [ctx EXCEPT ![c].refcount = @ - 1]
         /\ g_netdev_netns_ctx_list' = g_netdev_netns_ctx_list
         /\ open_fds' = open_fds

\* C8: free() of a Registered handle releases its context reference exactly
\* once (refcount one less, the context destroyed at zero) and removes the
\* handle; free() of an Unregistered handle leaves the pool alone.
C8_FreeUnregisters ==
    [][\A h \in Handles :
         IsCall("free", h)
         => /\ h \notin g_netdev_list'
            /\ netdev'[h] = ZeroNetdev
            /\ IF netdev[h].registered
               THEN Released(netdev[h].netns_ctx)
               ELSE Pool' = Pool]_vars

\* free() of a Registered handle destroyed its context and closed the descriptor
C8_Witness ==
    /\ last.op = "free"
    /\ \E i \in 1..Len(last.calls) :
         last.calls[i].fn = "close" /\ last.calls[i].rc = 0

(* -------------------------------- C9 ----------------------------------- *)

\* C9: ifupdown, add_addr and add_route on an Unregistered handle return
\* -ENODEV, call neither enter nor exit (no collaborator at all) and change
\* no handle, no pool state and not the process namespace.
C9_OpsNeedRegistered ==
    [][\A h \in Handles :
         ((IsCall("ifupdown", h) \/ IsCall("add_addr", h) \/ IsCall("add_route", h))
            /\ ~netdev[h].registered)
         => /\ last'.rc = -ENODEV
            /\ last'.calls = <<>>
            /\ netdev' = netdev
            /\ Pool' = Pool
            /\ cur_ns' = cur_ns]_vars

\* add_route was refused on an Unregistered handle that names a namespace
\* whose context is in the pool
C9_Witness ==
    /\ last.op = "add_route" /\ last.rc = -ENODEV
    /\ ~netdev[last.h].registered
    /\ netdev[last.h].netns_name = "blue"
    /\ CtxOfName("blue") # NULL

(* -------------------------------- C10 ---------------------------------- *)

\* C10: for a handle whose namespace name is unset or the empty string,
\* register, ifupdown, add_addr and add_route call neither
\* osmo_netns_switch_enter nor osmo_netns_switch_exit (so never with the
\* unopened descriptor -1).
C10_DefaultNameNoSwitch ==
    (/\ last.op \in {"register", "ifupdown", "add_addr", "add_route"}
     /\ netdev[last.h].netns_name \in {NullStr, ""})
    => (~Called(last, "enter") /\ ~Called(last, "exit"))

(* -------------------------------- C11 ---------------------------------- *)

\* this step is a call of ifupdown, add_addr or add_route on handle h
IsOpCall(h) ==
    IsCall("ifupdown", h) \/ IsCall("add_addr", h) \/ IsCall("add_route", h)

\* C11: when NETDEV_NETNS_EXIT fails after the bracketed call has completed,
\* the caller still observes the result of the bracketed call: -ENOTSUP for
\* ifupdown, add_addr and add_route, -ENODEV for a register() whose
\* if_indextoname() failed.
C11_ExitFailureKeepsResult ==
    [][\A h \in Handles :
         /\ (IsOpCall(h) /\ CallFailed(last', "exit")) => last'.rc = -ENOTSUP
         /\ (IsCall("register", h) /\ CallFailed(last', "if_indextoname")
               /\ CallFailed(last', "exit"))
            => last'.rc = -ENODEV]_vars

(* -------------------------------- C12 ---------------------------------- *)

\* C12: when osmo_netns_switch_enter fails in ifupdown, add_addr or add_route
\* on a Registered handle, the operation returns -EACCES at once: the failed
\* enter is its only collaborator call (no exit), and no handle, no pool
\* state and not the process namespace changes.
C12_EnterFailureIsAccess ==
    [][\A h \in Handles :
         (IsOpCall(h) /\ netdev[h].registered /\ CallFailed(last', "enter"))
         => /\ last'.rc = -EACCES
            /\ Len(last'.calls) = 1
            /\ ~Called(last', "exit")
            /\ netdev' = netdev
            /\ Pool' = Pool
            /\ cur_ns' = cur_ns]_vars

\* ifupdown returned -EACCES on a handle Registered in namespace "blue"
\* whose context is shared with the other handle
C12_Witness ==
    /\ last.op = "ifupdown" /\ last.rc = -EACCES
    /\ netdev[last.h].registered
    /\ netdev[last.h].netns_name = "blue"
    /\ ctx[netdev[last.h].netns_ctx].refcount = 2

(* -------------------------------- C13 ---------------------------------- *)

\* the calls of a guarded operation whose switches both succeeded
SwitchedInAndOut(l) ==
    /\ Len(l.calls) = 2
    /\ l.calls[1].fn = "enter" /\ l.calls[1].rc = 0
    /\ l.calls[2].fn = "exit" /\ l.calls[2].rc = 0

\* C13: ifupdown, add_addr and add_route on a Registered handle return
\* -ENOTSUP if and only if no switch failed, and then the calls were enter
\* followed by exit (none at all when the name is unset); a failed enter or
\* exit is never reported as -ENOTSUP.
C13_UnsupportedAfterSwitch ==
    [][\A h \in Handles :
         (IsOpCall(h) /\ netdev[h].registered)
         => /\ (last'.rc = -ENOTSUP)
                 <=> (~CallFailed(last', "enter") /\ ~CallFailed(last', "exit"))
            /\ (last'.rc = -ENOTSUP)
                 => IF netdev[h].netns_name = NullStr
                    THEN last'.calls = <<>>
                    ELSE SwitchedInAndOut(last')]_vars

\* add_route returned -ENOTSUP after entering and leaving the namespace
C13_Witness ==
    /\ last.op = "add_route" /\ last.rc = -ENOTSUP
    /\ netdev[last.h].registered
    /\ SwitchedInAndOut(last)

(* -------------------------------- C14 ---------------------------------- *)

\* netdev_netns_ctx_get() created a context and its initialisation failed:
\* the open, the validation enter or the validation exit
InitFailed(l) ==
    /\ Len(l.calls) >= 1
    /\ l.calls[1].fn = "open"
    /\ \E i \in 1..Len(l.calls) :
         i <= 3 /\ l.calls[i].fn \in {"open", "enter", "exit"} /\ l.calls[i].rc < 0

\* C14: when netdev_netns_ctx_get() creates a context and the open, the
\* validation enter or the validation exit fails, the pool is as before the
\* call (the context gone, the descriptor closed), register() returns -EFAULT
\* and the handle stays Unregistered.
C14_FailedCreateTornDown ==
    [][\A h \in Handles :
         (IsCall("register", h) /\ InitFailed(last'))
         => /\ Pool' = Pool
            /\ last'.rc = -EFAULT
            /\ ~netdev'[h].registered
            /\ \A i \in 1..Len(last'.calls) :
                 (last'.calls[i].fn = "open" /\ last'.calls[i].rc >= 0)
                 => \E j \in (i + 1)..Len(last'.calls) :
                      /\ last'.calls[j].fn = "close"
                      /\ last'.calls[j].arg = last'.calls[i].rc
                      /\ last'.calls[j].rc = 0]_vars

\* register() returned -EFAULT after the descriptor was opened, the
\* validation exit failed and the descriptor was closed again
C14_Witness ==
    /\ last.op = "register" /\ last.rc = -EFAULT
    /\ Len(last.calls) = 4
    /\ last.calls[1].fn = "open" /\ last.calls[1].rc >= 0
    /\ last.calls[3].fn = "exit" /\ last.calls[3].rc < 0
    /\ last.calls[4].fn = "close" /\ last.calls[4].rc = 0

(* -------------------------------- C15 ---------------------------------- *)

InPool == {g_netdev_netns_ctx_list[i] : i \in 1..Len(g_netdev_netns_ctx_list)}

\* C16: between public operations the pool holds at most one context per
\* namespace name, each context is in the list once, and every context in
\* the pool is allocated with a refcount greater than zero.
C16_PoolWellFormed ==
    /\ \A i, j \in 1..Len(g_netdev_netns_ctx_list) :
         ctx[g_netdev_netns_ctx_list[i]].netns_name
             = ctx[g_netdev_netns_ctx_list[j]].netns_name
         => i = j
    /\ \A c \in CtxIds : ctx[c].live <=> c \in InPool
    /\ \A c \in InPool : ctx[c].refcount > 0

\* the pool holds a context for the default namespace and one for "blue",
\* the latter referenced twice
C16_Witness ==
    /\ Len(g_netdev_netns_ctx_list) = 2
    /\ CtxOfName("") # NULL
    /\ CtxOfName("blue") # NULL
    /\ ctx[CtxOfName("blue")].refcount = 2

(* -------------------------------- C17 ---------------------------------- *)

\* the handles Registered against a namespace name
RegisteredOn(name) == {h \in Handles : netdev[h].registered /\ NameOf(h) = name}

\* C17: between public operations the refcount of each context in the pool is
\* the number of handles Registered against its name; so when no handle is
\* Registered the pool is empty and no namespace descriptor is open.
C17_RefcountCountsRegistered ==
    /\ \A c \in InPool : ctx[c].refcount = Cardinality(RegisteredOn(ctx[c].netns_name))
    /\ (\A h \in Handles : ~netdev[h].registered)
       => /\ g_netdev_netns_ctx_list = <<>>
          /\ \A f \in Fds : open_fds[f] = NullStr

(* -------------------------------- C18 ---------------------------------- *)

IsSwitch(c) == c.fn \in {"enter", "exit"}

\* the namespace switches an operation made, in order
Switches(l) == SelectSeq(l.calls, IsSwitch)

\* every successful enter is directly followed by its exit, every exit
\* directly follows a successful enter, and a failed enter is followed by no
\* switch at all
Balanced(sw) ==
    \A i \in 1..Len(sw) :
       /\ (sw[i].fn = "enter" /\ sw[i].rc = 0)
          => (i < Len(sw) /\ sw[i + 1].fn = "exit")
       /\ (sw[i].fn = "enter" /\ sw[i].rc < 0) => i = Len(sw)
       /\ sw[i].fn = "exit"
          => (i > 1 /\ sw[i - 1].fn = "enter" /\ sw[i - 1].rc = 0)

\* C18: in every public operation the namespace switches are balanced and
\* never nested, on every path, and when no exit failed the process is in the
\* namespace it was in before the operation.
C18_SwitchesBalanced ==
    [][(last = NoCall /\ last' # NoCall)
       => /\ Balanced(Switches(last'))
          /\ ~CallFailed(last', "exit") => cur_ns' = cur_ns]_vars

\* a register() created the context of "blue" and failed to resolve the
\* ifindex inside it: validation enter and exit, then the guard's enter and exit
C18_Witness ==
    /\ last.op = "register" /\ last.rc = -ENODEV
    /\ Len(Switches(last)) = 4
    /\ CallFailed(last, "if_indextoname")
    /\ cur_ns = ""

(* -------------------------------- C19 ---------------------------------- *)

\* C19: the context pointer of every Registered handle refers to a context
\* that is in the pool, allocated, and made for the handle's namespace name
\* (the empty name if unset), whatever was done with the other handles.
C19_RegisteredContextLive ==
    \A h \in Handles :
       netdev[h].registered
       => /\ netdev[h].netns_ctx \in InPool
          /\ ctx[netdev[h].netns_ctx].live
          /\ ctx[netdev[h].netns_ctx].netns_name = NameOf(h)

\* a handle just unregistered from the namespace in which the other handle
\* is still Registered
C19_Witness ==
    /\ last.op = "unregister" /\ last.rc = 0
    /\ netdev[last.h].netns_name = "blue"
    /\ \E o \in Handles \ {last.h} :
         netdev[o].registered /\ netdev[o].netns_name = "blue"

(* -------------------------------- C20 ---------------------------------- *)

\* unregister() returned u: it succeeded, the handle is Unregistered and the
\* pool is the one of the current state
PoolRestored(u) ==
    /\ u.rc = 0
    /\ ~u.nd.registered
    /\ u.s.ctx = ctx
    /\ u.s.list = g_netdev_netns_ctx_list
    /\ u.s.fds = open_fds

\* the second register() returned r: it succeeded and its unregister()
\* restores the pool again
RoundTripAgain(r) ==
    /\ r.rc = 0
    /\ r.nd.registered
    /\ PoolRestored(osmo_netdev_unregister(r.s, r.nd))

\* the first unregister() returned u
RoundTripBack(u) ==
    /\ PoolRestored(u)
    /\ RoundTripAgain(osmo_netdev_register(u.s, u.nd, AllOk))

\* register() returned r from the current state
RoundTrip(r) ==
    r.rc = 0 => RoundTripBack(osmo_netdev_unregister(r.s, r.nd))

\* C20: from every state between public operations, a register() that
\* succeeds, followed by unregister() on the same handle, gives back the pool
\* of that state (same contexts, same refcounts, same descriptors) with the
\* handle Unregistered, and the handle then registers again successfully and
\* that round trip restores the pool as well.
C20_RegisterUnregisterRoundTrip ==
    \A h \in Handles :
       (netdev[h].alloc /\ ~netdev[h].registered)
       => \A in \in Inputs :
            RoundTrip(osmo_netdev_register(World, netdev[h], in))

\* a handle that went through register() and unregister() in "blue": its
\* unregister() destroyed the context and closed the descriptor, the pool is
\* empty again, and the handle can start the next round trip
C20_Witness ==
    /\ last.op = "unregister" /\ last.rc = 0
    /\ Called(last, "close")
    /\ netdev[last.h].alloc /\ ~netdev[last.h].registered
    /\ netdev[last.h].netns_name = "blue"
    /\ netdev[last.h].dev_name # NullStr
    /\ g_netdev_netns_ctx_list = <<>>
    /\ osmo_netdev_register(World, netdev[last.h], AllOk).rc = 0

(* ------- register()/unregister() run by two threads, step by step ------- *)

\* netdev.c takes no lock: a thread inside netdev_netns_ctx_get() or
\* netdev_netns_ctx_put() can be preempted between any two accesses of the
\* list and of a context. The steps are the list lookup, the creation, the
\* initialisation, the load and the store of refcount++ and refcount--, the
\* test of the count and the destruction. The bracketed resolution of
\* register() (enter, if_indextoname, exit) is one step.

\* what a load of c->refcount can return: the count, or anything once the
\* memory was freed
Read(c) == IF ctx[c].live THEN {ctx[c].refcount} ELSE 0..MaxRefcount

\* the contexts after a store to c->refcount; a store to freed memory is
\* lost when the memory is next allocated (talloc_zero)
Write(c, v) == IF ctx[c].live THEN [ctx EXCEPT ![c].refcount = v] ELSE ctx

\* the thread on handle h took a step and is now at t
Stepped(h, t) ==
    /\ thread' = [thread EXCEPT ![h] = t]
    /\ overlapped' = (overlapped \/ \E o \in Handles \ {h} : thread[o].pc # "idle")
    /\ UNCHANGED <<g_netdev_list, last, at_register>>

\* register(): the test of registered, then the lookup of netdev_netns_ctx_get()
RegisterBegin(h) ==
    /\ thread[h].pc = "idle"
    /\ netdev[h].alloc /\ ~netdev[h].registered
    /\ RefcountBelowBound(h)
    /\ Stepped(h, [Idle EXCEPT
                     !.c = netdev_netns_ctx_find_by_netns_name(World, NameOf(h)),
                     !.pc = IF netdev_netns_ctx_find_by_netns_name(World, NameOf(h)) # NULL
                            THEN "get_inc_load" ELSE "get_alloc",
                     !.after = "register"])
    /\ UNCHANGED <<netdev, ctx, g_netdev_netns_ctx_list, open_fds, cur_ns>>

\* netdev_netns_ctx_alloc() returned a
GetAllocated(h, a) ==
    /\ Commit(a.s)
    /\ netdev' = IF a.ret = NULL THEN [netdev EXCEPT ![h].netns_ctx = NULL] ELSE netdev
    /\ Stepped(h, IF a.ret = NULL THEN Idle
                  ELSE [thread[h] EXCEPT !.pc = "get_init", !.c = a.ret])

GetAlloc(h) ==
    /\ thread[h].pc = "get_alloc"
    /\ \E ok \in BOOLEAN :
        GetAllocated(h, netdev_netns_ctx_alloc(World, NameOf(h), ok))

\* netdev_netns_ctx_init() returned i
GetInited(h, i) ==
    /\ Commit(i.s)
    /\ Stepped(h, [thread[h] EXCEPT !.pc = IF i.rc < 0 THEN "get_free"
                                            ELSE "get_inc_load"])
    /\ UNCHANGED netdev

GetInit(h) ==
    /\ thread[h].pc = "get_init"
    /\ \E in \in Inputs : GetInited(h, netdev_netns_ctx_init(World, thread[h].c, in))

\* netdev_netns_ctx_get() frees the context it could not initialise
GetFree(h) ==
    /\ thread[h].pc = "get_free"
    /\ Commit(netdev_netns_ctx_free(World, thread[h].c))
    /\ netdev' = [netdev EXCEPT ![h].netns_ctx = NULL]
    /\ Stepped(h, Idle)

\* netns_ctx->refcount++: the load (the count explored stays within bounds)
GetIncLoad(h) ==
    /\ thread[h].pc = "get_inc_load"
    /\ \E v \in Read(thread[h].c) :
        /\ v <= MaxRefcount
        /\ Stepped(h, [thread[h] EXCEPT !.pc = "get_inc_store", !.tmp = v])
    /\ UNCHANGED <<netdev, ctx, g_netdev_netns_ctx_list, open_fds, cur_ns>>

\* netns_ctx->refcount++: the store; then netdev->netns_ctx = the context
GetIncStore(h) ==
    /\ thread[h].pc = "get_inc_store"
    /\ ctx' = Write(thread[h].c, thread[h].tmp + 1)
    /\ netdev' = [netdev EXCEPT ![h].netns_ctx = thread[h].c]
    /\ Stepped(h, [thread[h] EXCEPT !.pc = "resolve", !.tmp = 0])
    /\ UNCHANGED <<g_netdev_netns_ctx_list, open_fds, cur_ns>>

\* register() after NETDEV_NETNS_EXIT: registered, returned by the macro, or
\* on its way to netdev_netns_ctx_put()
osmo_netdev_register_step_exited(nd, r, x) ==
    IF r.ret # NullStr
    THEN [nd |-> [nd EXCEPT !.dev_name = r.ret, !.registered = ~x.returned],
          s |-> x.s, pc |-> "idle"]
    ELSE [nd |-> nd, s |-> x.s, pc |-> IF x.returned THEN "idle" ELSE "put_load"]

\* register() after if_indextoname() returned r
osmo_netdev_register_step_resolved(nd, prev, r, in) ==
    osmo_netdev_register_step_exited(nd, r, NETDEV_NETNS_EXIT(r.s, nd, prev, in.exit))

\* register() after NETDEV_NETNS_ENTER
osmo_netdev_register_step_entered(nd, e, in) ==
    IF e.returned
    THEN [nd |-> nd, s |-> e.s, pc |-> "idle"]
    ELSE osmo_netdev_register_step_resolved(
             nd, e.prev, if_indextoname(e.s, nd.ifindex), in)

\* the resolution returned r = [nd, s, pc]
Resolved(h, r) ==
    /\ Commit(r.s)
    /\ netdev' = [netdev EXCEPT ![h] = r.nd]
    /\ Stepped(h, IF r.pc = "idle" THEN Idle ELSE [thread[h] EXCEPT !.pc = r.pc])

RegisterResolve(h) ==
    /\ thread[h].pc = "resolve"
    /\ \E in \in SwitchInputs :
        Resolved(h, osmo_netdev_register_step_entered(
                        netdev[h], NETDEV_NETNS_ENTER(World, netdev[h], in.enter), in))

\* unregister(): the test of registered and the two known flags
UnregisterBegin(h) ==
    /\ thread[h].pc = "idle"
    /\ netdev[h].alloc /\ netdev[h].registered
    /\ netdev' = [netdev EXCEPT ![h].if_up_known = FALSE, ![h].if_mtu_known = FALSE]
    /\ Stepped(h, [Idle EXCEPT !.pc = "put_load", !.c = netdev[h].netns_ctx,
                               !.after = "unregister"])
    /\ UNCHANGED <<ctx, g_netdev_netns_ctx_list, open_fds, cur_ns>>

\* netns_ctx->refcount--: the load (a decrement of 0 wraps the unsigned
\* count far out of the bounds explored)
PutLoad(h) ==
    /\ thread[h].pc = "put_load"
    /\ \E v \in Read(netdev[h].netns_ctx) :
        /\ v > 0
        /\ Stepped(h, [thread[h] EXCEPT !.pc = "put_store", !.c = netdev[h].netns_ctx,
                                    !.tmp = v])
    /\ UNCHANGED <<netdev, ctx, g_netdev_netns_ctx_list, open_fds, cur_ns>>

\* netns_ctx->refcount--: the store
PutStore(h) ==
    /\ thread[h].pc = "put_store"
    /\ ctx' = Write(thread[h].c, thread[h].tmp - 1)
    /\ Stepped(h, [thread[h] EXCEPT !.pc = "put_test", !.tmp = 0])
    /\ UNCHANGED <<netdev, g_netdev_netns_ctx_list, open_fds, cur_ns>>

\* the caller of netdev_netns_ctx_put() goes on: unregister() clears
\* registered, register() returns -ENODEV
PutReturned(h) ==
    IF thread[h].after = "unregister"
    THEN [netdev EXCEPT ![h].registered = FALSE]
    ELSE netdev

\* if (netns_ctx->refcount == 0)
PutTest(h) ==
    /\ thread[h].pc = "put_test"
    /\ \E v \in Read(thread[h].c) :
        IF v = 0
        THEN /\ Stepped(h, [thread[h] EXCEPT !.pc = "put_free"])
             /\ UNCHANGED netdev
        ELSE /\ Stepped(h, Idle)
             /\ netdev' = PutReturned(h)
    /\ UNCHANGED <<ctx, g_netdev_netns_ctx_list, open_fds, cur_ns>>

\* netdev_netns_ctx_free(): off the list, descriptor closed, memory freed
PutFree(h) ==
    /\ thread[h].pc = "put_free"
    /\ Commit(netdev_netns_ctx_free(World, thread[h].c))
    /\ netdev' = PutReturned(h)
    /\ Stepped(h, Idle)

\* the steps of the thread that works on handle h
ThreadStep(h) ==
    \/ RegisterBegin(h)
    \/ GetAlloc(h)
    \/ GetInit(h)
    \/ GetFree(h)
    \/ GetIncLoad(h)
    \/ GetIncStore(h)
    \/ RegisterResolve(h)
    \/ UnregisterBegin(h)
    \/ PutLoad(h)
    \/ PutStore(h)
    \/ PutTest(h)
    \/ PutFree(h)

\* each thread has allocated its handle and configured it for the namespace
\* "blue" and an interface index before the threads start
InitThreads ==
    /\ \E cfg \in [Handles -> 0..MaxIfindex] :
         netdev = [h \in Handles |->
                     osmo_netdev_set_netns_name(
                         osmo_netdev_set_ifindex(
                             osmo_netdev_alloc(ZeroNetdev, TRUE), cfg[h]).nd,
                         "blue").nd]
    /\ g_netdev_list = Handles
    /\ ctx = [c \in CtxIds |-> DeadCtx]
    /\ g_netdev_netns_ctx_list = <<>>
    /\ open_fds = [f \in Fds |-> NullStr]
    /\ cur_ns = ""
    /\ last = NoCall
    /\ at_register = [h \in Handles |-> NoCfg]
    /\ thread = [h \in Handles |-> Idle]
    /\ overlapped = FALSE

\* two threads, one per handle, and nothing that serialises them
NextThreads == \E h \in Handles : ThreadStep(h)

SpecThreads == InitThreads /\ [][NextThreads]_vars

(* -------------------------------- C21 ---------------------------------- *)

\* no thread is inside register() or unregister()
AllIdle == \A h \in Handles : thread[h].pc = "idle"

\* the pool has at most one context per name
OneContextPerName ==
    \A i, j \in 1..Len(g_netdev_netns_ctx_list) :
        ctx[g_netdev_netns_ctx_list[i]].netns_name
            = ctx[g_netdev_netns_ctx_list[j]].netns_name
        => i = j

\* every Registered handle whose thread is between operations references a
\* context that is allocated, in the pool and made for the handle's name
NoneDestroyedInUse ==
    \A h \in Handles :
        (netdev[h].registered /\ thread[h].pc = "idle")
        => /\ netdev[h].netns_ctx \in InPool
           /\ ctx[netdev[h].netns_ctx].live
           /\ ctx[netdev[h].netns_ctx].netns_name = NameOf(h)

\* between operations no refcount is below the number of handles Registered
\* against the context's name
NoLostUpdate ==
    AllIdle
    => \A c \in InPool :
         ctx[c].refcount >= Cardinality(RegisteredOn(ctx[c].netns_name))

\* the statement of C21 as claimed: also when the steps of the two threads
\* interleave, the pool never has two contexts for one name, a lost refcount
\* update or a context destroyed under a Registered handle
C21_Original == OneContextPerName /\ NoneDestroyedInUse /\ NoLostUpdate

\* C21 (amended): netdev.c does not make acquire and release atomic; as long
\* as the callers serialise register() and unregister() (no thread takes a
\* step while another is inside an operation), the pool never has two
\* contexts for one name, a refcount below the number of Registered handles
\* of that name, or a context destroyed under a Registered handle.
C21_SerializedPoolSafe ==
    ~overlapped => (OneContextPerName /\ NoneDestroyedInUse /\ NoLostUpdate)

\* the two threads registered their handles in "blue" one after the other:
\* both handles are Registered on the one context, which counts both
C21_Witness ==
    /\ ~overlapped
    /\ AllIdle
    /\ \A h \in Handles : netdev[h].registered /\ netdev[h].netns_name = "blue"
    /\ CtxOfName("blue") # NULL
    /\ ctx[CtxOfName("blue")].refcount = 2

====
